---- MODULE Spec2Model ----
(***************************************************************************)
(* Books API (src/main.py, src/init_db.py): CRUD over one "book" table,    *)
(* an API-key gate on the mutating endpoints, a filtered/paginated list    *)
(* and an aggregate statistics endpoint.                                   *)
(*                                                                         *)
(* Encoding.  A Python string is the sequence of its characters.  An       *)
(* Optional value is a sequence of length 0 (None) or 1 (the value).  A    *)
(* table row is a record id/title/author/year/isbn with a plain integer    *)
(* id and Optional columns.  The table is the sequence of its rows in      *)
(* insertion (rowid) order.                                                *)
(***************************************************************************)
EXTENDS Integers, Sequences, FiniteSets, TLC

VARIABLES
    store,      \* the books table: rows in insertion order
    nextId,     \* the id the table gives to the next inserted row
    now,        \* the calendar year of the wall clock
    pc,         \* "idle", or "responded" while a response waits to be sent
    req,        \* the request being answered
    resp,       \* the response to it
    prev,       \* the table as it was when the request arrived
    prevNextId, \* nextId as it was when the request arrived
    issued,     \* the ids that creates have returned so far, oldest first
    tasks,      \* the handlers in flight on the event loop (concurrency specification)
    running     \* the task that holds the event loop, 0 when none does

vars == <<store, nextId, now, pc, req, resp, prev, prevNextId, issued, tasks, running>>

----------------------------------------------------------------------------
(* Bounds of the model *)

\* ids the table hands out: creates stop once nextId exceeds MaxId
MaxId == 2
\* calendar years the clock may advance past the year the process started
MaxElapsed == 1
\* requests in flight at once in the concurrency specification
MaxTasks == 2

----------------------------------------------------------------------------
(* Program constants *)

TITLE_MIN == 1
TITLE_MAX == 200
AUTHOR_MIN == 1
AUTHOR_MAX == 100
YEAR_MIN == 1000
ISBN_MIN == 10
ISBN_MAX == 13
\* datetime.now().year, evaluated once, when the classes Book and BookUpdate
\* are defined (at import of main.py)
StartYear == 2026

HTTP_200_OK == 200
HTTP_201_CREATED == 201
HTTP_204_NO_CONTENT == 204
HTTP_401_UNAUTHORIZED == 401
HTTP_403_FORBIDDEN == 403
HTTP_404_NOT_FOUND == 404
HTTP_422_UNPROCESSABLE == 422
HTTP_500_SERVER_ERROR == 500

----------------------------------------------------------------------------
(* Values *)

None == <<>>
Some(x) == <<x>>
Rep(c, n) == [i \in 1..n |-> c]

Fields == {"title", "author", "year", "isbn"}

Row(i, t, a, y, b) == [id |-> i, title |-> t, author |-> a, year |-> y, isbn |-> b]

----------------------------------------------------------------------------
(* Validation layer: the pydantic models *)

\* Field(..., min_length, max_length) on a str: None is not a str
StrField(v, lo, hi) == v # None /\ Len(v[1]) >= lo /\ Len(v[1]) <= hi
\* Field(..., ge, le) on an int
IntField(v, lo, hi) == v # None /\ v[1] >= lo /\ v[1] <= hi

\* the constraint of column f, as both models state it for a value that is there
FieldBound(f, v) ==
    CASE f = "title" -> StrField(v, TITLE_MIN, TITLE_MAX)
      [] f = "author" -> StrField(v, AUTHOR_MIN, AUTHOR_MAX)
      [] f = "year" -> IntField(v, YEAR_MIN, StartYear)
      [] f = "isbn" -> StrField(v, ISBN_MIN, ISBN_MAX)

\* Book with the upper bound of year left out
Book_year_unbounded(p) ==
    /\ FieldBound("title", p.title)
    /\ FieldBound("author", p.author)
    /\ p.year # None /\ p.year[1] >= YEAR_MIN
    /\ (p.isbn = None \/ FieldBound("isbn", p.isbn))

\* class Book: title, author, year required; isbn Optional; id Optional, unconstrained
Book(p) ==
    /\ FieldBound("title", p.title)
    /\ FieldBound("author", p.author)
    /\ FieldBound("year", p.year)
    /\ (p.isbn = None \/ FieldBound("isbn", p.isbn))

\* class BookUpdate: every field Optional[...] = None, so None passes for each
BookUpdate(p) == \A f \in DOMAIN p : p[f] = None \/ FieldBound(f, p[f])

\* book.model_dump(exclude={"id"})
model_dump_exclude_id(p) == [f \in Fields |-> p[f]]

\* book_update.model_dump(exclude_unset=True): the fields the payload carries
model_dump_exclude_unset(p) == p

\* for field, value in data.items(): setattr(book, field, value)
setattr_all(row, data) ==
    [f \in DOMAIN row |-> IF f \in DOMAIN data THEN data[f] ELSE row[f]]

----------------------------------------------------------------------------
(* Auth check: auth.verify_api_key *)

API_KEY == "secret-key"

\* the status verify_api_key raises, 0 when the credential matches
verify_api_key(key) ==
    IF key = None THEN HTTP_401_UNAUTHORIZED
    ELSE IF key[1] # API_KEY THEN HTTP_403_FORBIDDEN
    ELSE 0

----------------------------------------------------------------------------
(* Book store: database.BookDB through the SQLAlchemy session *)

\* db.query(BookDB).filter(BookDB.id == book_id).first(): the index of the row, 0 if none
first_by_id(s, book_id) ==
    IF \E i \in 1..Len(s) : s[i].id = book_id
    THEN CHOOSE i \in 1..Len(s) : s[i].id = book_id
    ELSE 0

\* db.add(row); db.commit(): the table gives the row its id
db_add(s, n, data) == Append(s, Row(n, data.title, data.author, data.year, data.isbn))

\* setattr(...) on the row at index i; db.commit()
db_update(s, i, data) == [s EXCEPT ![i] = setattr_all(s[i], data)]

\* db.delete(row at index i); db.commit()
db_delete(s, i) == SubSeq(s, 1, i - 1) \o SubSeq(s, i + 1, Len(s))

----------------------------------------------------------------------------
(* Responses *)

Response(status, body) == [status |-> status, body |-> body]

\* response_model=Book / List[Book]: the returned rows are validated against
\* Book; a row that does not validate is a server error
serialize_response(status, rows) ==
    IF \A i \in 1..Len(rows) : Book(rows[i])
    THEN Response(status, rows)
    ELSE Response(HTTP_500_SERVER_ERROR, <<>>)

Request(op, key, id, body) == [op |-> op, key |-> key, id |-> id, body |-> body]

NoRequest == Request("none", None, 0, <<>>)
NoResponse == Response(0, <<>>)

\* what a handler leaves: its response, the table and the table's next id
Result(rsp, s, n) == [resp |-> rsp, store |-> s, nextId |-> n]

----------------------------------------------------------------------------
(* Router: the handlers of main.py, each as the result it gives on table s
   with next id n.  FastAPI resolves Depends(verify_api_key) before it
   validates the body, and calls the handler only when both pass. *)

\* create_book that passes the payload's own id to the table when it has one
create_book_keeps_payload_id(s, n, key, book) ==
    LET auth == verify_api_key(key)
        added == db_add(s, IF book.id # None THEN book.id[1] ELSE n,
                        model_dump_exclude_id(book))
    IN  IF auth # 0 THEN Result(Response(auth, <<>>), s, n)
        ELSE IF ~Book(book) THEN Result(Response(HTTP_422_UNPROCESSABLE, <<>>), s, n)
        ELSE Result(serialize_response(HTTP_201_CREATED, <<added[Len(added)]>>),
                    added, n + 1)

create_book(s, n, key, book) ==
    LET auth == verify_api_key(key)
        added == db_add(s, n, model_dump_exclude_id(book))
    IN  IF auth # 0 THEN Result(Response(auth, <<>>), s, n)
        ELSE IF ~Book(book) THEN Result(Response(HTTP_422_UNPROCESSABLE, <<>>), s, n)
        ELSE Result(serialize_response(HTTP_201_CREATED, <<added[Len(added)]>>),
                    added, n + 1)

get_book(s, n, book_id) ==
    LET i == first_by_id(s, book_id)
    IN  IF i # 0 THEN Result(serialize_response(HTTP_200_OK, <<s[i]>>), s, n)
        ELSE Result(Response(HTTP_404_NOT_FOUND, <<>>), s, n)

\* update_book that dumps the payload with exclude_none=True
update_book_exclude_none(s, n, key, book_id, updated_book) ==
    LET auth == verify_api_key(key)
        i == first_by_id(s, book_id)
        data == [f \in {g \in Fields : updated_book[g] # None} |-> updated_book[f]]
        updated == db_update(s, i, data)
    IN  IF auth # 0 THEN Result(Response(auth, <<>>), s, n)
        ELSE IF ~Book(updated_book)
        THEN Result(Response(HTTP_422_UNPROCESSABLE, <<>>), s, n)
        ELSE IF i = 0 THEN Result(Response(HTTP_404_NOT_FOUND, <<>>), s, n)
        ELSE Result(serialize_response(HTTP_200_OK, <<updated[i]>>), updated, n)

update_book(s, n, key, book_id, updated_book) ==
    LET auth == verify_api_key(key)
        i == first_by_id(s, book_id)
        updated == db_update(s, i, model_dump_exclude_id(updated_book))
    IN  IF auth # 0 THEN Result(Response(auth, <<>>), s, n)
        ELSE IF ~Book(updated_book)
        THEN Result(Response(HTTP_422_UNPROCESSABLE, <<>>), s, n)
        ELSE IF i = 0 THEN Result(Response(HTTP_404_NOT_FOUND, <<>>), s, n)
        ELSE Result(serialize_response(HTTP_200_OK, <<updated[i]>>), updated, n)

partial_update_book(s, n, key, book_id, book_update) ==
    LET auth == verify_api_key(key)
        i == first_by_id(s, book_id)
        updated == db_update(s, i, model_dump_exclude_unset(book_update))
    IN  IF auth # 0 THEN Result(Response(auth, <<>>), s, n)
        ELSE IF ~BookUpdate(book_update)
        THEN Result(Response(HTTP_422_UNPROCESSABLE, <<>>), s, n)
        ELSE IF i = 0 THEN Result(Response(HTTP_404_NOT_FOUND, <<>>), s, n)
        ELSE Result(serialize_response(HTTP_200_OK, <<updated[i]>>), updated, n)

\* delete_book without Depends(verify_api_key)
delete_book_unauthenticated(s, n, key, book_id) ==
    LET i == first_by_id(s, book_id)
    IN  IF i = 0 THEN Result(Response(HTTP_404_NOT_FOUND, <<>>), s, n)
        ELSE Result(Response(HTTP_204_NO_CONTENT, <<>>), db_delete(s, i), n)

\* delete_book that deletes and never commits
delete_book_uncommitted(s, n, key, book_id) ==
    LET auth == verify_api_key(key)
        i == first_by_id(s, book_id)
    IN  IF auth # 0 THEN Result(Response(auth, <<>>), s, n)
        ELSE IF i = 0 THEN Result(Response(HTTP_404_NOT_FOUND, <<>>), s, n)
        ELSE Result(Response(HTTP_204_NO_CONTENT, <<>>), s, n)

delete_book(s, n, key, book_id) ==
    LET auth == verify_api_key(key)
        i == first_by_id(s, book_id)
    IN  IF auth # 0 THEN Result(Response(auth, <<>>), s, n)
        ELSE IF i = 0 THEN Result(Response(HTTP_404_NOT_FOUND, <<>>), s, n)
        ELSE Result(Response(HTTP_204_NO_CONTENT, <<>>), db_delete(s, i), n)

----------------------------------------------------------------------------
(* List: filters and pagination *)

UpperCase == <<"L", "T", "F", "D", "A", "P", "W">>
LowerCase == <<"l", "t", "f", "d", "a", "p", "w">>

\* the lower-case form of one character
LowerChar(c) ==
    IF \E k \in 1..Len(UpperCase) : UpperCase[k] = c
    THEN LowerCase[CHOOSE k \in 1..Len(UpperCase) : UpperCase[k] = c]
    ELSE c

Lower(str) == [k \in 1..Len(str) |-> LowerChar(str[k])]

\* SQL LIKE: % matches any run of characters, _ any one character
RECURSIVE Like(_, _)
Like(pat, str) ==
    IF pat = <<>> THEN str = <<>>
    ELSE IF Head(pat) = "%"
    THEN Like(Tail(pat), str) \/ (str # <<>> /\ Like(pat, Tail(str)))
    ELSE /\ str # <<>>
         /\ (Head(pat) = "_" \/ Head(pat) = Head(str))
         /\ Like(Tail(pat), Tail(str))

\* BookDB.author.ilike(f"%{author}%"); a NULL column matches nothing
author_ilike(col, author) ==
    col # None /\ Like(Lower(<<"%">> \o author \o <<"%">>), Lower(col[1]))

\* Python truth of an Optional[str] / Optional[int] query parameter
TruthyStr(v) == v # None /\ v[1] # <<>>
TruthyInt(v) == v # None /\ v[1] # 0

\* the rows the query keeps: the filters of get_books, in table order
query_filter(s, author, year_from, year_to) ==
    LET keep(row) ==
            /\ (TruthyStr(author) => author_ilike(row.author, author[1]))
            /\ (TruthyInt(year_from) => (row.year # None /\ row.year[1] >= year_from[1]))
            /\ (TruthyInt(year_to) => (row.year # None /\ row.year[1] <= year_to[1]))
    IN  SelectSeq(s, keep)

\* query.offset(skip).limit(limit).all(), for skip >= 0 and limit >= 0
offset_limit(rows, skip, limit) ==
    SubSeq(rows, skip + 1, IF skip + limit < Len(rows) THEN skip + limit ELSE Len(rows))

ListParams(skip, limit, author, year_from, year_to) ==
    [skip |-> skip, limit |-> limit, author |-> author,
     year_from |-> year_from, year_to |-> year_to]

get_books(s, n, q) ==
    LET books == offset_limit(query_filter(s, q.author, q.year_from, q.year_to),
                              q.skip, q.limit)
    IN  Result(serialize_response(HTTP_200_OK, books), s, n)

----------------------------------------------------------------------------
(* Stats aggregator *)

\* Counter(keys): the mapping from each key of the sequence to its count
Counter(keys) ==
    [k \in {keys[i] : i \in 1..Len(keys)} |->
        Cardinality({i \in 1..Len(keys) : keys[i] = k})]

\* book.year // 100 + 1 and its label f"{century} век"
century(row) == row.year[1] \div 100 + 1
century_label(c) == <<c, "vek">>

Statistics(total, authors, centuries) ==
    [total_books |-> total, books_by_author |-> authors, books_by_century |-> centuries]

get_statistics(s, n) ==
    LET authors == [i \in 1..Len(s) |-> s[i].author]
        centuries == [i \in 1..Len(s) |-> century_label(century(s[i]))]
    IN  IF \E i \in 1..Len(s) : s[i].year = None
        THEN \* None // 100 raises TypeError
             Result(Response(HTTP_500_SERVER_ERROR, <<>>), s, n)
        ELSE Result(Response(HTTP_200_OK,
                             Statistics(Len(s), Counter(authors), Counter(centuries))),
                    s, n)

----------------------------------------------------------------------------
(* init_db.py: the sample rows, in Latin transliteration *)

initial_books ==
    << [title |-> Some(<<"V", "o", "y", "n", "a", " ", "i", " ", "m", "i", "r">>), author |-> Some(<<"L", "e", "v", " ", "T", "o", "l", "s", "t", "o", "y">>),
        year |-> Some(1869), isbn |-> Some(<<"9", "7", "8", "5", "1", "7", "0", "9", "8", "7", "6", "5", "4">>)],
       [title |-> Some(<<"P", "r", "e", "s", "t", "u", "p", "l", "e", "n", "i", "e", " ", "i", " ", "n", "a", "k", "a", "z", "a", "n", "i", "e">>),
        author |-> Some(<<"F", "e", "d", "o", "r", " ", "D", "o", "s", "t", "o", "e", "v", "s", "k", "i", "y">>),
        year |-> Some(1866), isbn |-> Some(<<"9", "7", "8", "5", "1", "7", "0", "8", "7", "6", "5", "4", "3">>)],
       [title |-> Some(<<"E", "v", "g", "e", "n", "i", "y", " ", "O", "n", "e", "g", "i", "n">>),
        author |-> Some(<<"A", "l", "e", "k", "s", "a", "n", "d", "r", " ", "P", "u", "s", "h", "k", "i", "n">>),
        year |-> Some(1833), isbn |-> Some(<<"9", "7", "8", "5", "1", "7", "0", "7", "6", "5", "4", "3", "2">>)] >>

RECURSIVE add_all(_, _, _)
\* for book_data in books: db.add(BookDB(**book_data))
add_all(s, n, books) ==
    IF books = <<>> THEN Result(NoResponse, s, n)
    ELSE add_all(db_add(s, n, Head(books)), n + 1, Tail(books))

\* init_database(): nothing when the table holds a row, the sample rows otherwise
init_database(s, n) ==
    IF Len(s) > 0 THEN Result(NoResponse, s, n)
    ELSE add_all(s, n, initial_books)

----------------------------------------------------------------------------
(* Steps of the sequential specifications: one request is answered at a time *)

\* a handler has run: its response and the table it leaves
Answer(r, res) ==
    /\ pc' = "responded"
    /\ req' = r
    /\ resp' = res.resp
    /\ prev' = store
    /\ prevNextId' = nextId
    /\ store' = res.store
    /\ nextId' = res.nextId
    /\ issued' = IF r.op = "create" /\ res.resp.status = HTTP_201_CREATED
                 THEN Append(issued, res.resp.body[1].id)
                 ELSE issued
    /\ UNCHANGED <<now, tasks, running>>

\* POST /api/books
PostBooks(key, book) ==
    /\ pc = "idle"
    /\ LET res == create_book(store, nextId, key, book)
       IN  /\ Len(res.store) <= MaxId
           /\ res.nextId <= MaxId + 1
           /\ Answer(Request("create", key, 0, book), res)

\* GET /api/books/{book_id}
GetBook(book_id) ==
    /\ pc = "idle"
    /\ Answer(Request("get", None, book_id, <<>>), get_book(store, nextId, book_id))

\* PUT /api/books/{book_id}
PutBook(key, book_id, book) ==
    /\ pc = "idle"
    /\ Answer(Request("put", key, book_id, book),
              update_book(store, nextId, key, book_id, book))

\* PATCH /api/books/{book_id}
PatchBook(key, book_id, book_update) ==
    /\ pc = "idle"
    /\ Answer(Request("patch", key, book_id, book_update),
              partial_update_book(store, nextId, key, book_id, book_update))

\* DELETE /api/books/{book_id}
DeleteBook(key, book_id) ==
    /\ pc = "idle"
    /\ Answer(Request("delete", key, book_id, <<>>),
              delete_book(store, nextId, key, book_id))

\* GET /api/books
GetBooks(q) ==
    /\ pc = "idle"
    /\ Answer(Request("list", None, 0, q), get_books(store, nextId, q))

\* GET /api/stats/books
GetStatistics ==
    /\ pc = "idle"
    /\ Answer(Request("stats", None, 0, <<>>), get_statistics(store, nextId))

\* python init_db.py
InitDatabase ==
    /\ pc = "idle"
    /\ LET res == init_database(store, nextId)
       IN  /\ store' = res.store
           /\ nextId' = res.nextId
           /\ issued' = [k \in 1..(res.nextId - 1) |-> k]
    /\ UNCHANGED <<now, pc, req, resp, prev, prevNextId, tasks, running>>

\* the response is sent; the next request is taken
Return ==
    /\ pc = "responded"
    /\ pc' = "idle"
    /\ req' = NoRequest
    /\ resp' = NoResponse
    /\ prev' = <<>>
    /\ prevNextId' = 0
    /\ UNCHANGED <<store, nextId, now, issued, tasks, running>>

\* the wall clock passes into the next calendar year
Tick ==
    /\ pc = "idle"
    /\ now < StartYear + MaxElapsed
    /\ now' = now + 1
    /\ UNCHANGED <<store, nextId, pc, req, resp, prev, prevNextId, issued, tasks, running>>

----------------------------------------------------------------------------
(* Requests the clients send *)

Keys == {None, Some("wrong-key"), Some(API_KEY)}

TitleA == <<"W">>
AuthorA == <<"L">>
Isbn10 == Rep("9", ISBN_MIN)

\* values one field of a payload takes besides the valid ones: null or missing,
\* and one value just outside each bound
BadValues(f) ==
    CASE f = "title" -> {None, Some(<<>>), Some(Rep("x", TITLE_MAX + 1))}
      [] f = "author" -> {None, Some(<<>>), Some(Rep("x", AUTHOR_MAX + 1))}
      [] f = "year" -> {None, Some(YEAR_MIN - 1), Some(StartYear + 1)}
      [] f = "isbn" -> {Some(Rep("9", ISBN_MIN - 1)), Some(Rep("9", ISBN_MAX + 1))}

GoodValues(f) ==
    CASE f = "title" -> {Some(TitleA)}
      [] f = "author" -> {Some(AuthorA)}
      [] f = "year" -> {Some(StartYear)}
      [] f = "isbn" -> {None, Some(Isbn10)}

\* full payloads (class Book) that validate and carry no id
GoodBooks ==
    {[id |-> None, title |-> t, author |-> a, year |-> y, isbn |-> b] :
        t \in GoodValues("title"), a \in GoodValues("author"),
        y \in GoodValues("year"), b \in GoodValues("isbn")}

BaseBook ==
    [id |-> None, title |-> Some(TitleA), author |-> Some(AuthorA),
     year |-> Some(StartYear), isbn |-> None]

\* full payloads that validate and carry an id of their own
IdBooks == {[b EXCEPT !.id = Some(1)] : b \in GoodBooks}

\* full payloads with one field out of bounds
BadBooks == UNION {{[BaseBook EXCEPT ![f] = v] : v \in BadValues(f)} : f \in Fields}

BookPayloads == GoodBooks \cup IdBooks \cup BadBooks

\* partial payloads (class BookUpdate): no field; one field, valid, null or out of
\* bounds; every field
PatchPayloads ==
    {<<>>}
    \cup UNION {{f :> v : v \in GoodValues(f) \cup BadValues(f) \cup {None}} : f \in Fields}
    \cup {model_dump_exclude_id(b) : b \in GoodBooks}

\* full payloads at the bounds of year, for the specification with the clock
ClockYears == {YEAR_MIN - 1, YEAR_MIN, StartYear} \cup
              {StartYear + d : d \in 1..(MaxElapsed + 1)}
ClockBooks == {[BaseBook EXCEPT !.year = Some(y)] : y \in ClockYears}
                 \cup {[BaseBook EXCEPT !.year = None]}

BookIds == 1..MaxId

Skips == {0, 1}
Limits == {0, 1, 10}
AuthorFilters == {None, Some(<<>>), Some(<<"t", "O", "l", "s", "t">>), Some(<<"_">>)}
YearFilters == {None, Some(0), Some(1866)}

ListQueries ==
    {ListParams(sk, li, a, yf, yt) :
        sk \in Skips, li \in Limits, a \in AuthorFilters,
        yf \in YearFilters, yt \in YearFilters}

\* the list requests of the CRUD specification: the defaults, and every filter at once
FewListQueries ==
    {ListParams(0, 10, None, None, None),
     ListParams(1, 1, Some(<<"l">>), Some(YEAR_MIN), Some(StartYear))}

----------------------------------------------------------------------------
(* The CRUD specification: requests answered one at a time on an empty table *)

Init ==
    /\ store = <<>>
    /\ nextId = 1
    /\ now = StartYear
    /\ pc = "idle"
    /\ req = NoRequest
    /\ resp = NoResponse
    /\ prev = <<>>
    /\ prevNextId = 0
    /\ issued = <<>>
    /\ tasks = <<>>
    /\ running = 0

Next ==
    \/ \E k \in Keys, b \in BookPayloads : PostBooks(k, b)
    \/ \E k \in Keys, i \in BookIds, b \in BookPayloads : PutBook(k, i, b)
    \/ \E k \in Keys, i \in BookIds, u \in PatchPayloads : PatchBook(k, i, u)
    \/ \E k \in Keys, i \in BookIds : DeleteBook(k, i)
    \/ \E i \in BookIds : GetBook(i)
    \/ \E q \in FewListQueries : GetBooks(q)
    \/ GetStatistics
    \/ Return

Spec == Init /\ [][Next]_vars

----------------------------------------------------------------------------
(* The clock specification: creates and deletes while the calendar year advances *)

NextClock ==
    \/ \E k \in Keys, b \in ClockBooks : PostBooks(k, b)
    \/ \E k \in Keys, i \in BookIds : DeleteBook(k, i)
    \/ Return
    \/ Tick

SpecClock == Init /\ [][NextClock]_vars

----------------------------------------------------------------------------
(* The read specification: list, get and stats on the sample rows and on what
   deletes leave of them *)

RECURSIVE SubSeqs(_)
\* the sequences that deleting rows of s can leave
SubSeqs(s) ==
    IF s = <<>> THEN {<<>>}
    ELSE LET rest == SubSeqs(Tail(s))
         IN  rest \cup {<<Head(s)>> \o t : t \in rest}

SeedStore == init_database(<<>>, 1).store

InitRead ==
    /\ \/ store = <<>> /\ nextId = 1
       \/ store \in SubSeqs(SeedStore) /\ nextId = Len(SeedStore) + 1
    /\ issued = [k \in 1..(nextId - 1) |-> k]
    /\ now = StartYear
    /\ pc = "idle"
    /\ req = NoRequest
    /\ resp = NoResponse
    /\ prev = <<>>
    /\ prevNextId = 0
    /\ tasks = <<>>
    /\ running = 0

NextRead ==
    \/ InitDatabase
    \/ \E q \in ListQueries : GetBooks(q)
    \/ \E i \in 1..Len(SeedStore) : GetBook(i)
    \/ GetStatistics
    \/ Return

SpecRead == InitRead /\ [][NextRead]_vars

----------------------------------------------------------------------------
(* The concurrency specification: several update and delete requests on the
   same id are in flight at once.  A handler makes its store round trips one
   after the other: the SELECT of its existence check, the UPDATE or DELETE
   of db.commit(), the SELECT of db.refresh(). *)

\* handlers that give up the event loop after every round trip
await_points_every_round_trip(op) == {"checked", "committed"}

\* the round trips after which a handler gives the event loop to another
\* request: update_book, partial_update_book and delete_book are coroutines
\* (async def) whose bodies hold no await, and the session calls block
await_points(op) == {}

Task(op, id, body) ==
    [op |-> op, id |-> id, body |-> body, pc |-> "start", row |-> None,
     resp |-> NoResponse]

Finish(task, rsp) == [task EXCEPT !.pc = "done", !.resp = rsp]

\* what a round trip leaves: the handler's state and the table
Trip(task, s) == [task |-> task, store |-> s]

\* the payload as the handler dumps it
dumped(task) ==
    IF task.op = "put" THEN model_dump_exclude_id(task.body)
    ELSE model_dump_exclude_unset(task.body)

\* book = db.query(BookDB).filter(BookDB.id == book_id).first(); if not book: raise 404
query_step(task, s) ==
    LET i == first_by_id(s, task.id)
    IN  IF i = 0 THEN Trip(Finish(task, Response(HTTP_404_NOT_FOUND, <<>>)), s)
        ELSE Trip([task EXCEPT !.pc = "checked", !.row = Some(s[i])], s)

\* setattr(...); db.commit(), or db.delete(book); db.commit().  The session
\* writes the columns whose value changed on the loaded row; an UPDATE that
\* matches no row is a StaleDataError, a DELETE that matches none is not
commit_step(task, s) ==
    LET i == first_by_id(s, task.id)
        data == dumped(task)
        dirty == {f \in DOMAIN data : data[f] # task.row[1][f]}
    IN  IF task.op = "delete"
        THEN Trip(Finish(task, Response(HTTP_204_NO_CONTENT, <<>>)),
                  IF i = 0 THEN s ELSE db_delete(s, i))
        ELSE IF dirty = {} THEN Trip([task EXCEPT !.pc = "committed"], s)
        ELSE IF i = 0 THEN Trip(Finish(task, Response(HTTP_500_SERVER_ERROR, <<>>)), s)
        ELSE Trip([task EXCEPT !.pc = "committed"],
                  db_update(s, i, [f \in dirty |-> data[f]]))

\* db.refresh(book); return book
refresh_step(task, s) ==
    LET i == first_by_id(s, task.id)
    IN  IF i = 0 THEN Trip(Finish(task, Response(HTTP_500_SERVER_ERROR, <<>>)), s)
        ELSE Trip(Finish(task, serialize_response(HTTP_200_OK, <<s[i]>>)), s)

\* task t makes one round trip; it keeps the event loop unless it is done or awaits
RoundTrip(t, trip) ==
    /\ running \in {0, t}
    /\ tasks' = [tasks EXCEPT ![t] = trip.task]
    /\ store' = trip.store
    /\ running' = IF trip.task.pc = "done" \/ trip.task.pc \in await_points(trip.task.op)
                  THEN 0 ELSE t
    /\ UNCHANGED <<nextId, now, pc, req, resp, prev, prevNextId, issued>>

Query(t) ==
    /\ tasks[t].pc = "start"
    /\ RoundTrip(t, query_step(tasks[t], store))

Commit(t) ==
    /\ tasks[t].pc = "checked"
    /\ RoundTrip(t, commit_step(tasks[t], store))

Refresh(t) ==
    /\ tasks[t].pc = "committed"
    /\ RoundTrip(t, refresh_step(tasks[t], store))

\* the requests in flight: all authenticated, all on id 1
ConcRequests ==
    {Task("put", 1, BaseBook),
     Task("put", 1, [BaseBook EXCEPT !.isbn = Some(Isbn10)]),
     Task("patch", 1, <<>>),
     Task("patch", 1, "isbn" :> Some(Isbn10)),
     Task("delete", 1, <<>>)}

\* the table when the requests arrive: the row of id 1 alone, or beside another row
ConcStores ==
    {create_book(<<>>, 1, Some(API_KEY), BaseBook).store,
     create_book(create_book(<<>>, 1, Some(API_KEY), BaseBook).store, 2,
                 Some(API_KEY), BaseBook).store}

InitConc ==
    /\ store \in ConcStores
    /\ prev = store
    /\ nextId = Len(store) + 1
    /\ prevNextId = nextId
    /\ issued = [k \in 1..Len(store) |-> k]
    /\ tasks \in [1..MaxTasks -> ConcRequests]
    /\ running = 0
    /\ now = StartYear
    /\ pc = "idle"
    /\ req = NoRequest
    /\ resp = NoResponse

NextConc ==
    \/ \E t \in DOMAIN tasks : Query(t)
    \/ \E t \in DOMAIN tasks : Commit(t)
    \/ \E t \in DOMAIN tasks : Refresh(t)

SpecConc == InitConc /\ [][NextConc]_vars

----------------------------------------------------------------------------
(* The statements checked *)

Mutating == {"create", "put", "patch", "delete"}
Reads == {"get", "list", "stats"}
AuthErrors == {HTTP_401_UNAUTHORIZED, HTTP_403_FORBIDDEN}

Authenticated == req.key = Some(API_KEY)
Answered(op) == pc = "responded" /\ req.op = op

\* the data model's constraints on one value of column f, in calendar year y
MeetsConstraint(f, v, y) ==
    CASE f = "title" -> v # None /\ Len(v[1]) \in 1..200
      [] f = "author" -> v # None /\ Len(v[1]) \in 1..100
      [] f = "year" -> v # None /\ v[1] \in 1000..y
      [] f = "isbn" -> v = None \/ Len(v[1]) \in 10..13

MeetsConstraints(b, y) == \A f \in Fields : MeetsConstraint(f, b[f], y)

Ids(s) == {s[i].id : i \in 1..Len(s)}
RowOf(s, id) == s[CHOOSE i \in 1..Len(s) : s[i].id = id]
\* s and t hold the same rows in the same order, the row of id aside
SameButFor(s, t, id) ==
    SelectSeq(s, LAMBDA r : r.id # id) = SelectSeq(t, LAMBDA r : r.id # id)
SamePlaces(s, t) == Len(s) = Len(t) /\ \A i \in 1..Len(s) : s[i].id = t[i].id

\* C1: in every reachable state every persisted book satisfies every field
\* constraint: title 1..200 characters, author 1..100, year 1000..current
\* year, isbn absent or 10..13 characters
C1_PersistedBooksMeetConstraints ==
    \A i \in 1..Len(store) : MeetsConstraints(store[i], now)

\* C2: a mutating request without the matching credential fails with an auth
\* error and leaves the table as it was, whatever its id and payload; the
\* read operations take no credential and are never answered with an auth
\* error
C2_NoCredentialNoMutation ==
    pc = "responded" =>
        /\ (req.op \in Mutating /\ ~Authenticated) =>
              (resp.status \in AuthErrors /\ store = prev /\ nextId = prevNextId)
        /\ req.op \in Reads => (req.key = None /\ resp.status \notin AuthErrors)

\* a delete of a row that is there, with a wrong key, was refused
C2_Witness ==
    /\ Answered("delete")
    /\ req.key = Some("wrong-key")
    /\ req.id \in Ids(prev)
    /\ resp.status = HTTP_403_FORBIDDEN

C4_YearOutOfRangeRejected ==
    (/\ Answered("create")
     /\ Authenticated
     /\ req.body.year # None
     /\ (req.body.year[1] < 1000 \/ req.body.year[1] > now)) =>
        /\ resp.status = HTTP_422_UNPROCESSABLE
        /\ store = prev
        /\ nextId = prevNextId

\* a year after the current one was refused once the clock had advanced, on a
\* table that holds a row
C4_Witness ==
    /\ Answered("create")
    /\ Authenticated
    /\ now > StartYear
    /\ req.body.year = Some(now + 1)
    /\ resp.status = HTTP_422_UNPROCESSABLE
    /\ Len(store) > 0

\* the partial payload's present fields are null or within the bounds
PatchValidates(u) == \A f \in DOMAIN u : u[f] = None \/ MeetsConstraint(f, u[f], StartYear)

\* C5: an authenticated PATCH of an existing id sets exactly the fields
\* present in the payload and leaves the other fields, the id and the other
\* rows alone; with no field present it succeeds and the table is unchanged;
\* on an id that is not there it fails with NotFound and the table is unchanged
C5_PatchSetsExactlyPresentFields ==
    (Answered("patch") /\ Authenticated /\ PatchValidates(req.body)) =>
        IF req.id \in Ids(prev)
        THEN /\ SamePlaces(store, prev)
             /\ SameButFor(store, prev, req.id)
             /\ RowOf(store, req.id).id = req.id
             /\ \A f \in Fields :
                   RowOf(store, req.id)[f] =
                       IF f \in DOMAIN req.body THEN req.body[f] ELSE RowOf(prev, req.id)[f]
             /\ DOMAIN req.body = {} => (resp.status = HTTP_200_OK /\ store = prev)
        ELSE resp.status = HTTP_404_NOT_FOUND /\ store = prev

C7_DeleteRemovesExactlyOne ==
    (Answered("delete") /\ Authenticated) =>
        IF req.id \in Ids(prev)
        THEN /\ resp.status = HTTP_204_NO_CONTENT
             /\ resp.body = <<>>
             /\ req.id \notin Ids(store)
             /\ store = SelectSeq(prev, LAMBDA r : r.id # req.id)
             /\ get_book(store, nextId, req.id).resp.status = HTTP_404_NOT_FOUND
             /\ delete_book(store, nextId, req.key, req.id)
                   = Result(Response(HTTP_404_NOT_FOUND, <<>>), store, nextId)
        ELSE resp.status = HTTP_404_NOT_FOUND /\ store = prev

\* the first of two rows was deleted and the second stays
C7_Witness ==
    /\ Answered("delete")
    /\ resp.status = HTTP_204_NO_CONTENT
    /\ req.id = 1
    /\ Len(prev) = 2
    /\ Ids(store) = {2}

\* sub occurs in str
Contains(str, sub) ==
    \E k \in 0..(Len(str) - Len(sub)) : SubSeq(str, k + 1, k + Len(sub)) = sub

\* the rows the list is said to return: every filter the query carries applies
ListedRows(s, q) ==
    LET matches(row) ==
            /\ q.author # None =>
                  (row.author # None /\ Contains(Lower(row.author[1]), Lower(q.author[1])))
            /\ q.year_from # None => (row.year # None /\ row.year[1] >= q.year_from[1])
            /\ q.year_to # None => (row.year # None /\ row.year[1] <= q.year_to[1])
        kept == SelectSeq(s, matches)
    IN  [k \in 1..(IF Len(kept) - q.skip < q.limit
                   THEN (IF Len(kept) > q.skip THEN Len(kept) - q.skip ELSE 0)
                   ELSE q.limit) |-> kept[q.skip + k]]

\* C8: list returns the rows that satisfy every supplied filter (author as a
\* case-insensitive substring, year_from and year_to inclusive, the values 0
\* and "" applied like any other), in table order, the first skip dropped and
\* at most limit returned; never an error
C8_ListAppliesEveryFilter ==
    Answered("list") =>
        /\ resp.status = HTTP_200_OK
        /\ resp.body = ListedRows(prev, req.body)
        /\ store = prev

RECURSIVE SumOver(_, _)
\* the sum of the counts of mapping m over the keys ks
SumOver(m, ks) ==
    IF ks = {} THEN 0
    ELSE LET k == CHOOSE x \in ks : TRUE IN m[k] + SumOver(m, ks \ {k})

\* C9: stats returns the number of rows, the count of rows per author and per
\* century year // 100 + 1, each mapping summing to the total, and leaves the
\* table alone; on an empty table the total is 0 and both mappings are empty
C9_StatsCountsEveryRow ==
    Answered("stats") =>
        /\ store = prev
        /\ resp.status = HTTP_200_OK
        /\ LET st == resp.body
               authors == DOMAIN st.books_by_author
               centuries == DOMAIN st.books_by_century
           IN  /\ st.total_books = Len(store)
               /\ authors = {store[i].author : i \in 1..Len(store)}
               /\ \A a \in authors :
                     st.books_by_author[a] =
                         Cardinality({i \in 1..Len(store) : store[i].author = a})
               /\ SumOver(st.books_by_author, authors) = st.total_books
               /\ centuries = {<<store[i].year[1] \div 100 + 1, "vek">> : i \in 1..Len(store)}
               /\ \A c \in centuries :
                     st.books_by_century[c] =
                         Cardinality({i \in 1..Len(store) :
                                         store[i].year[1] \div 100 + 1 = c[1]})
               /\ SumOver(st.books_by_century, centuries) = st.total_books
               /\ Len(store) = 0 => (authors = {} /\ centuries = {})

\* the handler of a task, run in one piece on table s
Sequential(task, s) ==
    CASE task.op = "put" -> update_book(s, 0, Some(API_KEY), task.id, task.body)
      [] task.op = "patch" -> partial_update_book(s, 0, Some(API_KEY), task.id, task.body)
      [] task.op = "delete" -> delete_book(s, 0, Some(API_KEY), task.id)

RECURSIVE SerialOutcomes(_, _, _)
\* the tables and responses that running the tasks of `left` one after the
\* other, in any order, can give from table s
SerialOutcomes(left, s, resps) ==
    IF left = {} THEN {[store |-> s, resps |-> resps]}
    ELSE UNION {LET res == Sequential(tasks[t], s)
                IN  SerialOutcomes(left \ {t}, res.store,
                                   [resps EXCEPT ![t] = res.resp]) : t \in left}

AllDone == tasks # <<>> /\ \A t \in DOMAIN tasks : tasks[t].pc = "done"

====
